---------------------------- MODULE Spec2Model ----------------------------
(***************************************************************************)
(* A model of slinky (fictionic/slinky): the lexical path normaliser       *)
(* tidy_path, the `slinky` tree walk with its per-link commands, the       *)
(* `slinky-ln` link creator and the two tree mirrors, over a small POSIX   *)
(* file system with directories, files and symbolic links.                 *)
(*                                                                         *)
(* A path string is a sequence of tokens: the separator "/", ".", ".."     *)
(* and names.  Between two separators there is exactly one token, so every *)
(* name is one token.                                                      *)
(***************************************************************************)
EXTENDS Naturals, Integers, Sequences, FiniteSets, TLC

VARIABLES
    tpc,        \* SpecTidy: position of the tidy_path driver
    tin,        \* SpecTidy: the input path string
    tout,       \* SpecTidy: tidy_path(tin)
    tout2,      \* SpecTidy: tidy_path(tout)
    fs,         \* the file system: canonical path -> node
    fs0,        \* the file system when the program started
    run,        \* which invocation of the command line this is: 1 or 2
    pc,         \* position of the running program
    why,        \* the error main returned with, "" when none
    cli,        \* the parsed command line (SlinkyCli or SlinkyLnCli)
    stack,      \* slinky: the WalkDir iterator of the main loop
    acted,      \* slinky: origin paths that reached the command dispatch
    errs,       \* slinky: origin paths whose operation returned an error
    link,       \* slinky: the classification of the link last dispatched
    mstack,     \* tree mirror: its WalkDir iterator
    mtarget,    \* the `target` of the mirror; slinky-ln: base_target_path
    morigin,    \* the `origin` of the mirror; slinky-ln: origin_path
    mhard,      \* tree mirror: create_hard_link_tree (else symlink tree)
    mres        \* tree mirror: "ok" / "err" once it returned, "" before

tidyVars == <<tpc, tin, tout, tout2>>
fsVars == <<fs, fs0, run, pc, why>>
walkVars == <<cli, stack, acted, errs, link>>
mirrorVars == <<mstack, mtarget, morigin, mhard, mres>>
vars == <<tidyVars, fsVars, walkVars, mirrorVars>>

(***************************************************************************)
(* Bounds                                                                  *)
(***************************************************************************)
\* longest component sequence handed to tidy_path
MaxLen == 4
\* symbolic links followed in one path resolution before ELOOP
MaxFollow == 4
\* deepest canonical path the file system lets a program create
\* (ENAMETOOLONG beyond it)
MaxPathDepth == 5

\* SpecDiff: the longest input path of diff_paths, in names
MaxDiffDepth == 4

(***************************************************************************)
(* std::path on unix: strings, components, PathBuf::push / pop             *)
(***************************************************************************)
SEP == "/"
CUR == "."
PAR == ".."
NONE == "<none>"

Last(s) == s[Len(s)]
Front(s) == SubSeq(s, 1, Len(s) - 1)

\* Path::is_absolute / has_root on unix: the string starts with a separator
IsAbsolute(s) == s # <<>> /\ s[1] = SEP

\* Component::Normal
IsNormal(c) == c \notin {SEP, CUR, PAR, NONE}

\* the positions of the string's tokens that Path::components yields: the
\* root separator, a leading "." of a relative path, every ".." and name;
\* repeated and trailing separators and every other "." are skipped
CompIdx(s) ==
    {i \in 1..Len(s) :
        \/ i = 1
        \/ s[i] # SEP /\ s[i] # CUR}

RECURSIVE SortedIdx(_)
SortedIdx(S) ==
    IF S = {} THEN <<>>
    ELSE LET m == CHOOSE x \in S : \A y \in S : x <= y
         IN  <<m>> \o SortedIdx(S \ {m})

\* Path::components, front to back
Components(s) ==
    LET idx == SortedIdx(CompIdx(s))
    IN  [k \in 1..Len(idx) |-> s[idx[k]]]

\* path.components().next_back()
NextBack(s) ==
    LET c == Components(s)
    IN  IF c = <<>> THEN NONE ELSE Last(c)

\* PathBuf::push(path): an absolute path replaces the buffer; otherwise a
\* separator is added unless the buffer is empty or ends in one
Push(buf, p) ==
    IF IsAbsolute(p) THEN p
    ELSE IF buf # <<>> /\ Last(buf) # SEP THEN buf \o <<SEP>> \o p
    ELSE buf \o p

\* Path::join
Join(base, p) == Push(base, p)

\* Path::parent: the string up to the component before the last one; none
\* for the empty path and for the root
HasParent(s) == NextBack(s) \notin {NONE, SEP}

Parent(s) ==
    LET idx == SortedIdx(CompIdx(s))
    IN  IF Len(idx) <= 1 THEN <<>>
        ELSE SubSeq(s, 1, idx[Len(idx) - 1])

\* PathBuf::pop: truncate to the parent, when there is one
Pop(buf) == IF HasParent(buf) THEN Parent(buf) ELSE buf

\* names written out with one separator between them
RECURSIVE JoinSegs(_)
JoinSegs(segs) ==
    IF segs = <<>> THEN <<>>
    ELSE IF Len(segs) = 1 THEN segs
    ELSE <<Head(segs), SEP>> \o JoinSegs(Tail(segs))

\* the working directory of the process
Cwd == <<"r">>

(***************************************************************************)
(* tidy_path (src/lib.rs)                                                  *)
(***************************************************************************)
\* mutant of TidyStep: every ".." cancels whatever precedes it, and is kept
\* only on an empty accumulator
TidyStep_NaiveCancel(cleaned, component) ==
    IF IsNormal(component) THEN Push(cleaned, <<component>>)
    ELSE IF component = CUR THEN cleaned
    ELSE IF component = PAR THEN
        IF cleaned = <<>> THEN Push(cleaned, <<component>>) ELSE Pop(cleaned)
    ELSE cleaned

\* mutant of TidyStep: a ".." that cancels a name is also kept
TidyStep_PopAndKeep(cleaned, component) ==
    IF IsNormal(component) THEN Push(cleaned, <<component>>)
    ELSE IF component = CUR THEN cleaned
    ELSE IF component = PAR THEN
        IF IsNormal(NextBack(cleaned)) THEN Push(Pop(cleaned), <<component>>)
        ELSE IF cleaned = <<>> \/ NextBack(cleaned) = PAR
             THEN Push(cleaned, <<component>>)
        ELSE cleaned
    ELSE cleaned

\* one turn of the `for component in components` loop
TidyStep(cleaned, component) ==
    IF IsNormal(component) THEN Push(cleaned, <<component>>)
    ELSE IF component = CUR THEN cleaned
    ELSE IF component = PAR THEN
        IF IsNormal(NextBack(cleaned)) THEN Pop(cleaned)
        ELSE IF cleaned = <<>> \/ NextBack(cleaned) = PAR
             THEN Push(cleaned, <<component>>)
        ELSE cleaned
    ELSE cleaned

RECURSIVE TidyLoop(_, _)
TidyLoop(cleaned, comps) ==
    IF comps = <<>> THEN cleaned
    ELSE TidyLoop(TidyStep(cleaned, Head(comps)), Tail(comps))

tidy_path(path) ==
    LET comps == Components(path)
    IN  IF comps # <<>> /\ Head(comps) = SEP
        THEN TidyLoop(Push(<<>>, <<SEP>>), Tail(comps))
        ELSE TidyLoop(<<>>, comps)

(***************************************************************************)
(* The file system.  A canonical path is the sequence of names from the    *)
(* root; fs maps every existing canonical path to its node.  A node the    *)
(* program creates (a directory, a symlink) has inode 0; the files and     *)
(* links of the initial tree have distinct positive inodes.                *)
(***************************************************************************)
RootDir == <<>>

Dir(i) == [kind |-> "dir", target |-> <<>>, ino |-> i, dev |-> 0]
File(i, d) == [kind |-> "file", target |-> <<>>, ino |-> i, dev |-> d]
Link(i, t) == [kind |-> "link", target |-> t, ino |-> i, dev |-> 0]

ParentOf(p) == IF p = <<>> THEN <<>> ELSE Front(p)

IsPrefix(p, q) == Len(p) <= Len(q) /\ SubSeq(q, 1, Len(p)) = p

\* the entries of directory p
Children(f, p) == {q \in DOMAIN f : Len(q) = Len(p) + 1 /\ IsPrefix(p, q)}

Without(f, ps) == [q \in DOMAIN f \ ps |-> f[q]]
With(f, p, node) == [q \in DOMAIN f \cup {p} |-> IF q = p THEN node ELSE f[q]]

\* the canonical path as an absolute path string
ToStr(p) == <<SEP>> \o JoinSegs(p)

\* the tokens path resolution walks: a trailing separator asks for a
\* directory, like a trailing "."
Toks(s) ==
    LET segs == SelectSeq(s, LAMBDA t : t # SEP)
    IN  IF segs # <<>> /\ Last(s) = SEP THEN Append(segs, CUR) ELSE segs

\* path_resolution(7) from directory cur: "ok" with the entry's canonical
\* path, "missing" when only the last name is absent (p: where it would
\* be), or the error
RECURSIVE Lookup(_, _, _, _, _)
Lookup(f, cur, toks, follow, fuel) ==
    IF toks = <<>> THEN [st |-> "ok", p |-> cur]
    ELSE
    LET t == Head(toks)
        rest == Tail(toks)
        p == Append(cur, t)
    IN  IF t = CUR THEN Lookup(f, cur, rest, follow, fuel)
        ELSE IF t = PAR THEN Lookup(f, ParentOf(cur), rest, follow, fuel)
        ELSE IF p \notin DOMAIN f
             THEN [st |-> IF rest = <<>> THEN "missing" ELSE "enoent", p |-> p]
        ELSE IF f[p].kind = "dir" THEN Lookup(f, p, rest, follow, fuel)
        ELSE IF f[p].kind = "file"
             THEN [st |-> IF rest = <<>> THEN "ok" ELSE "enotdir", p |-> p]
        ELSE IF rest = <<>> /\ ~follow THEN [st |-> "ok", p |-> p]
        ELSE IF fuel = 0 THEN [st |-> "eloop", p |-> p]
        ELSE IF f[p].target = <<>> THEN [st |-> "enoent", p |-> p]
        ELSE Lookup(f, IF IsAbsolute(f[p].target) THEN RootDir ELSE cur,
                    Toks(f[p].target) \o rest, follow, fuel - 1)

Resolve(f, s, follow) ==
    IF s = <<>> THEN [st |-> "enoent", p |-> <<>>]
    ELSE Lookup(f, IF IsAbsolute(s) THEN RootDir ELSE Cwd, Toks(s), follow, MaxFollow)

\* Path::exists, Path::is_dir (both follow links), Path::is_symlink
PathExists(f, s) == Resolve(f, s, TRUE).st = "ok"
IsDir(f, s) ==
    LET r == Resolve(f, s, TRUE) IN r.st = "ok" /\ f[r.p].kind = "dir"
IsSymlink(f, s) ==
    LET r == Resolve(f, s, FALSE) IN r.st = "ok" /\ f[r.p].kind = "link"

\* fs::read_link of a path that is a symlink
ReadLink(f, s) == f[Resolve(f, s, FALSE).p].target

\* fs::canonicalize
Canonicalize(f, s) ==
    LET r == Resolve(f, s, TRUE)
    IN  [ok |-> r.st = "ok", path |-> ToStr(r.p)]

\* fs::remove_file: unlink(2), refused for a directory
RemoveFile(f, s) ==
    LET r == Resolve(f, s, FALSE)
    IN  IF r.st = "ok" /\ f[r.p].kind # "dir"
        THEN [ok |-> TRUE, fs |-> Without(f, {r.p})]
        ELSE [ok |-> FALSE, fs |-> f]

\* std::os::unix::fs::symlink: symlink(2) refuses an empty target and an
\* existing link path
Symlink(f, target, s) ==
    LET r == Resolve(f, s, FALSE)
    IN  IF target # <<>> /\ r.st = "missing" /\ Len(r.p) <= MaxPathDepth
        THEN [ok |-> TRUE, fs |-> With(f, r.p, Link(0, target))]
        ELSE [ok |-> FALSE, fs |-> f]

\* mutant of HardLink: across devices a copy of the file is made instead
HardLink_CopiesAcrossDevices(f, src, dst) ==
    LET rs == Resolve(f, src, FALSE)
        rd == Resolve(f, dst, FALSE)
    IN  IF /\ rs.st = "ok" /\ f[rs.p].kind # "dir"
           /\ rd.st = "missing" /\ Len(rd.p) <= MaxPathDepth
        THEN [ok |-> TRUE,
              fs |-> With(f, rd.p,
                          IF f[rs.p].dev = f[ParentOf(rd.p)].dev THEN f[rs.p]
                          ELSE File(0, f[ParentOf(rd.p)].dev))]
        ELSE [ok |-> FALSE, fs |-> f]

\* fs::hard_link: linkat(2) without AT_SYMLINK_FOLLOW; refused for a
\* directory, an existing new path and across devices
HardLink(f, src, dst) ==
    LET rs == Resolve(f, src, FALSE)
        rd == Resolve(f, dst, FALSE)
    IN  IF /\ rs.st = "ok" /\ f[rs.p].kind # "dir"
           /\ rd.st = "missing" /\ Len(rd.p) <= MaxPathDepth
           /\ f[rs.p].dev = f[ParentOf(rd.p)].dev
        THEN [ok |-> TRUE, fs |-> With(f, rd.p, f[rs.p])]
        ELSE [ok |-> FALSE, fs |-> f]

\* mkdir(2)
Mkdir(f, s) ==
    LET r == Resolve(f, s, FALSE)
    IN  IF r.st = "missing" /\ Len(r.p) <= MaxPathDepth
        THEN [ok |-> TRUE, err |-> "", fs |-> With(f, r.p, Dir(0))]
        ELSE [ok |-> FALSE, fs |-> f,
              err |-> IF r.st = "enoent" THEN "notfound" ELSE "other"]

\* fs::create_dir_all (std DirBuilder::create_dir_all)
RECURSIVE CreateDirAll(_, _)
CreateDirAll(f, s) ==
    IF s = <<>> THEN [ok |-> TRUE, fs |-> f]
    ELSE
    LET m == Mkdir(f, s)
    IN  IF m.ok THEN [ok |-> TRUE, fs |-> m.fs]
        ELSE IF m.err = "notfound" THEN
            IF ~HasParent(s) THEN [ok |-> FALSE, fs |-> f]
            ELSE LET up == CreateDirAll(f, Parent(s))
                     m2 == Mkdir(up.fs, s)
                 IN  IF ~up.ok THEN up
                     ELSE IF m2.ok THEN [ok |-> TRUE, fs |-> m2.fs]
                     ELSE [ok |-> IsDir(up.fs, s), fs |-> up.fs]
        ELSE [ok |-> IsDir(f, s), fs |-> f]

\* mutant of Rename: the entry is copied and its old path stays
Rename_KeepsSource(f, src, dst) ==
    LET rs == Resolve(f, src, FALSE)
        rd == Resolve(f, dst, FALSE)
    IN  IF rs.st # "ok" \/ rd.st # "missing" THEN [ok |-> FALSE, fs |-> f]
        ELSE [ok |-> TRUE, fs |-> (rd.p :> f[rs.p]) @@ f]

\* fs::rename: rename(2); a directory cannot move into itself, a
\* non-directory cannot replace a directory, a directory replaces only an
\* empty directory, and nothing moves across devices
Rename(f, src, dst) ==
    LET rs == Resolve(f, src, FALSE)
        rd == Resolve(f, dst, FALSE)
        movable ==
            /\ rs.st = "ok" /\ rs.p # RootDir
            /\ rd.st \in {"ok", "missing"}
            /\ f[rs.p].dev = f[ParentOf(rd.p)].dev
            /\ ~(IsPrefix(rs.p, rd.p) /\ rs.p # rd.p)
            /\ rd.st = "ok" =>
                 /\ ~IsPrefix(rd.p, rs.p) \/ rd.p = rs.p
                 /\ (f[rs.p].kind = "dir") = (f[rd.p].kind = "dir")
                 /\ f[rd.p].kind = "dir" => Children(f, rd.p) = {}
        moved == {q \in DOMAIN f : IsPrefix(rs.p, q)}
        NewPath(q) == rd.p \o SubSeq(q, Len(rs.p) + 1, Len(q))
        kept == DOMAIN f \ (moved \cup {rd.p})
    IN  IF ~movable THEN [ok |-> FALSE, fs |-> f]
        ELSE IF rs.p = rd.p THEN [ok |-> TRUE, fs |-> f]
        ELSE [ok |-> TRUE,
              fs |-> [q \in kept \cup {NewPath(m) : m \in moved} |->
                        IF q \in kept THEN f[q]
                        ELSE f[CHOOSE m \in moved : NewPath(m) = q]]]

(***************************************************************************)
(* The regex crate, on token strings: a pattern is one literal token, and  *)
(* BadRegex is a pattern Regex::new rejects                                *)
(***************************************************************************)
BadRegex == "("

RegexValid(pat) == pat # BadRegex

IsMatch(pat, str) == \E i \in 1..Len(str) : str[i] = pat

\* Regex::replace: the leftmost match only
ReplaceFirst(pat, str, rep) ==
    IF ~IsMatch(pat, str) THEN str
    ELSE LET i == CHOOSE k \in 1..Len(str) :
                      str[k] = pat /\ \A j \in 1..(k - 1) : str[j] # pat
         IN  SubSeq(str, 1, i - 1) \o rep \o SubSeq(str, i + 1, Len(str))

\* Regex::replace_all
RECURSIVE ReplaceAll(_, _, _)
ReplaceAll(pat, str, rep) ==
    IF str = <<>> THEN <<>>
    ELSE IF Head(str) = pat THEN rep \o ReplaceAll(pat, Tail(str), rep)
    ELSE <<Head(str)>> \o ReplaceAll(pat, Tail(str), rep)

(***************************************************************************)
(* pathdiff::diff_paths(path, base)                                        *)
(***************************************************************************)
RECURSIVE DiffLoop_DropsParent(_, _, _)
\* mutant of DiffLoop: one ".." too few when the paths part ways
DiffLoop_DropsParent(ita, itb, comps) ==
    IF ita = <<>> /\ itb = <<>> THEN [some |-> TRUE, comps |-> comps]
    ELSE IF itb = <<>> THEN [some |-> TRUE, comps |-> comps \o ita]
    ELSE IF ita = <<>>
         THEN [some |-> TRUE, comps |-> [k \in 1..Len(itb) |-> PAR]]
    ELSE IF Head(ita) = Head(itb)
         THEN DiffLoop_DropsParent(Tail(ita), Tail(itb), comps)
    ELSE [some |-> TRUE,
          comps |-> comps \o [k \in 1..(Len(itb) - 1) |-> PAR] \o ita]

RECURSIVE DiffLoop(_, _, _)
DiffLoop(ita, itb, comps) ==
    IF ita = <<>> /\ itb = <<>> THEN [some |-> TRUE, comps |-> comps]
    ELSE IF itb = <<>> THEN [some |-> TRUE, comps |-> comps \o ita]
    ELSE IF ita = <<>> THEN DiffLoop(ita, Tail(itb), Append(comps, PAR))
    ELSE IF comps = <<>> /\ Head(ita) = Head(itb)
         THEN DiffLoop(Tail(ita), Tail(itb), comps)
    ELSE IF Head(itb) = CUR
         THEN DiffLoop(Tail(ita), Tail(itb), Append(comps, Head(ita)))
    ELSE IF Head(itb) = PAR THEN [some |-> FALSE, comps |-> <<>>]
    ELSE [some |-> TRUE,
          comps |-> comps \o [k \in 1..Len(itb) |-> PAR] \o ita]

\* mutant of diff_paths: the common prefix is not skipped; the result
\* climbs to the root and descends from there
diff_paths_FromRoot(path, base) ==
    [some |-> TRUE,
     path |-> JoinSegs([k \in 1..(Len(Components(base)) - 1) |-> PAR]
                       \o Tail(Components(path)))]

diff_paths(path, base) ==
    IF IsAbsolute(path) # IsAbsolute(base)
    THEN [some |-> IsAbsolute(path), path |-> path]
    ELSE LET d == DiffLoop(Components(path), Components(base), <<>>)
         IN  [some |-> d.some, path |-> JoinSegs(d.comps)]

(***************************************************************************)
(* walkdir::WalkDir with follow_links(false).  The walker is a stack of    *)
(* directory listings; a listing is read when the walker first asks it     *)
(* for an entry, and holds the entries not yet yielded, each with the file *)
(* type readdir reported.                                                  *)
(***************************************************************************)
NoDepth == [some |-> FALSE, val |-> 0]

StartFrame(f, root) ==
    LET r == Resolve(f, root, FALSE)
    IN  [read |-> TRUE, dir |-> <<>>, depth |-> 0,
         rest |-> IF r.st = "ok"
                  THEN {[path |-> root, kind |-> f[r.p].kind]} ELSE {}]

\* fs::read_dir and its entries
ReadDirOk(f, dir) == IsDir(f, dir)

ReadDir(f, dir) ==
    LET r == Resolve(f, dir, TRUE)
    IN  {[path |-> Join(dir, <<Last(q)>>), kind |-> f[q].kind] :
            q \in Children(f, r.p)}

\* IntoIter::next up to the entry it is about to yield: listings beyond
\* max_depth and exhausted listings are popped, an unread listing is read.
\* err: a listing could not be read (the item WalkDir yields is an Err)
RECURSIVE WdSettle(_, _, _, _)
WdSettle(f, st, maxd, stopOnErr) ==
    IF st = <<>> THEN [stack |-> <<>>, err |-> FALSE]
    ELSE
    LET top == Last(st)
    IN  IF maxd.some /\ top.depth > maxd.val
        THEN WdSettle(f, Front(st), maxd, stopOnErr)
        ELSE IF ~top.read THEN
            IF ReadDirOk(f, top.dir)
            THEN WdSettle(f, Append(Front(st),
                     [top EXCEPT !.read = TRUE, !.rest = ReadDir(f, top.dir)]),
                     maxd, stopOnErr)
            ELSE IF stopOnErr THEN [stack |-> Front(st), err |-> TRUE]
            ELSE WdSettle(f, Front(st), maxd, stopOnErr)
        ELSE IF top.rest = {} THEN WdSettle(f, Front(st), maxd, stopOnErr)
        ELSE [stack |-> st, err |-> FALSE]

\* IntoIter::handle_entry: the entry leaves its listing; a directory (and a
\* root that is a symlink to a directory) is opened for reading
WdYield(f, st, e) ==
    LET top == Last(st)
        popped == Append(Front(st), [top EXCEPT !.rest = @ \ {e}])
        descend == \/ e.kind = "dir"
                   \/ top.depth = 0 /\ e.kind = "link" /\ IsDir(f, e.path)
    IN  IF descend
        THEN Append(popped, [read |-> FALSE, dir |-> e.path,
                             depth |-> top.depth + 1, rest |-> {}])
        ELSE popped

(***************************************************************************)
(* SpecTidy: tidy_path applied to every bounded input, then to its result  *)
(***************************************************************************)
TidyNames == {"a", "b", "c"}
TidySegs == TidyNames \cup {CUR, PAR}

SeqsUpTo(S, n) == UNION {[1..k -> S] : k \in 0..n}

\* a path string: optional root, the segments joined by "/", and either a
\* doubled first separator or a trailing separator as spelling variants
MkPath(abs, segs, variant) ==
    LET body == JoinSegs(segs)
        dbl  == IF variant = "double" /\ Len(body) >= 2
                THEN <<body[1], SEP>> \o Tail(body) ELSE body
        trl  == IF variant = "trailing" /\ body # <<>>
                THEN dbl \o <<SEP>> ELSE dbl
    IN  (IF abs THEN <<SEP>> ELSE <<>>) \o trl

TidyInputs ==
    {MkPath(abs, segs, v) :
        abs \in BOOLEAN, segs \in SeqsUpTo(TidySegs, MaxLen),
        v \in {"plain", "double", "trailing"}}

TidyIdle ==
    /\ tpc = "idle"
    /\ tin = <<>>
    /\ tout = <<>>
    /\ tout2 = <<>>

NoCli == [command |-> "none"]
NoLink == [path |-> <<>>]

WalkIdle ==
    /\ cli = NoCli
    /\ stack = <<>>
    /\ acted = {}
    /\ errs = {}
    /\ link = NoLink

MirrorIdle ==
    /\ mstack = <<>>
    /\ mtarget = <<>>
    /\ morigin = <<>>
    /\ mhard = FALSE
    /\ mres = ""

EmptyFs == (RootDir :> Dir(10))

FsIdle ==
    /\ fs = EmptyFs
    /\ fs0 = EmptyFs
    /\ run = 1
    /\ pc = "idle"
    /\ why = ""

TidyInit ==
    /\ tpc = "input"
    /\ tin \in TidyInputs
    /\ tout = <<>>
    /\ tout2 = <<>>
    /\ FsIdle /\ WalkIdle /\ MirrorIdle

ApplyTidy ==
    /\ tpc = "input"
    /\ tout' = tidy_path(tin)
    /\ tpc' = "once"
    /\ UNCHANGED <<tin, tout2, fsVars, walkVars, mirrorVars>>

ApplyTidyAgain ==
    /\ tpc = "once"
    /\ tout2' = tidy_path(tout)
    /\ tpc' = "twice"
    /\ UNCHANGED <<tin, tout, fsVars, walkVars, mirrorVars>>

TidyNext == ApplyTidy \/ ApplyTidyAgain

SpecTidy == TidyInit /\ [][TidyNext]_vars

(***************************************************************************)
(* create_hard_link_tree / create_symlink_tree (src/lib.rs).  The WalkDir  *)
(* loop runs one entry per step, while pc = "mirror".                      *)
(***************************************************************************)
\* Path::strip_prefix of an entry of the walk of base
StripPrefix(path, base) ==
    LET cp == Components(path)
        cb == Components(base)
    IN  JoinSegs(SubSeq(cp, Len(cb) + 1, Len(cp)))

\* mutant of CanonSymlink: the link stores the path as the walk gave it
CanonSymlink_StoresEntryPath(f, source, dest) ==
    LET a == Canonicalize(f, source)
    IN  IF a.ok THEN Symlink(f, source, dest) ELSE [ok |-> FALSE, fs |-> f]

\* the symlink arm: fs::canonicalize(source)?; symlink(abs_target, dest)?
CanonSymlink(f, source, dest) ==
    LET a == Canonicalize(f, source)
    IN  IF a.ok THEN Symlink(f, a.path, dest) ELSE [ok |-> FALSE, fs |-> f]

\* the function up to its WalkDir loop; done: it returned without looping
MirrorStart(f, target, origin, hard) ==
    IF IsDir(f, target)
    THEN LET c == CreateDirAll(f, origin)
         IN  IF c.ok
             THEN [done |-> FALSE, ok |-> TRUE, fs |-> c.fs,
                   stack |-> <<StartFrame(c.fs, target)>>]
             ELSE [done |-> TRUE, ok |-> FALSE, fs |-> c.fs, stack |-> <<>>]
    ELSE LET l == IF hard THEN HardLink(f, target, origin)
                  ELSE CanonSymlink(f, target, origin)
         IN  [done |-> TRUE, ok |-> l.ok, fs |-> l.fs, stack |-> <<>>]

\* the loop body for entry e
MirrorEntry(f, e, target, origin, hard) ==
    LET rel == StripPrefix(e.path, target)
        dest == Join(origin, rel)
    IN  IF rel = <<>> THEN [ok |-> TRUE, fs |-> f]
        ELSE IF IsDir(f, e.path) THEN CreateDirAll(f, dest)
        ELSE IF hard THEN HardLink(f, e.path, dest)
        ELSE CanonSymlink(f, e.path, dest)

MirrorSettled == WdSettle(fs, mstack, NoDepth, TRUE)

MirrorPending ==
    IF pc # "mirror" THEN {}
    ELSE LET m == MirrorSettled
         IN  IF m.err \/ m.stack = <<>> THEN {} ELSE Last(m.stack).rest

\* mutant of MirrorReturns: instead of returning, the function starts its
\* walk over the source again
MirrorReturns_StartsOver(ok) ==
    /\ mres' = IF ok THEN "ok" ELSE "err"
    /\ mstack' = <<StartFrame(fs, mtarget)>>
    /\ UNCHANGED <<pc, errs, why>>

\* the mirror returns to its caller: slinky's handle_operation reports an
\* error and the walk goes on; slinky-ln's main returns with it
MirrorReturns(ok) ==
    /\ mres' = IF ok THEN "ok" ELSE "err"
    /\ mstack' = <<>>
    /\ IF cli.command # "ln"
       THEN /\ pc' = "walk"
            /\ errs' = IF ok THEN errs ELSE errs \cup {link.path}
            /\ why' = why
       ELSE /\ pc' = IF ok THEN "done" ELSE "failed"
            /\ why' = IF ok THEN why ELSE "mirror"
            /\ errs' = errs

MirrorStep ==
    \E e \in MirrorPending :
        LET r == MirrorEntry(fs, e, mtarget, morigin, mhard)
        IN  /\ fs' = r.fs
            /\ IF r.ok
               THEN /\ mstack' = WdYield(fs, MirrorSettled.stack, e)
                    /\ UNCHANGED <<pc, why, errs, mres>>
               ELSE MirrorReturns(FALSE)
            /\ UNCHANGED <<fs0, run, cli, stack, acted, link, mtarget, morigin,
                           mhard, tidyVars>>

MirrorEnd ==
    /\ pc = "mirror"
    /\ MirrorSettled.err \/ MirrorSettled.stack = <<>>
    /\ MirrorReturns(~MirrorSettled.err)
    /\ UNCHANGED <<fs, fs0, run, cli, stack, acted, link, mtarget, morigin,
                   mhard, tidyVars>>

(***************************************************************************)
(* slinky (src/bin/slinky.rs): main                                        *)
(***************************************************************************)
\* mutant of InlineTidyStep: a "." component is pushed like a name
InlineTidyStep_KeepsCurDir(cleaned, component) ==
    IF IsNormal(component) \/ component = CUR THEN Push(cleaned, <<component>>)
    ELSE IF component = PAR THEN
        IF IsNormal(NextBack(cleaned)) THEN Pop(cleaned)
        ELSE IF cleaned = <<>> \/ NextBack(cleaned) = PAR
             THEN Push(cleaned, <<component>>)
        ELSE cleaned
    ELSE cleaned

\* the inline normalisation of the Tidy arm
InlineTidyStep(cleaned, component) ==
    IF IsNormal(component) THEN Push(cleaned, <<component>>)
    ELSE IF component = CUR THEN cleaned
    ELSE IF component = PAR THEN
        IF IsNormal(NextBack(cleaned)) THEN Pop(cleaned)
        ELSE IF cleaned = <<>> \/ NextBack(cleaned) = PAR
             THEN Push(cleaned, <<component>>)
        ELSE cleaned
    ELSE cleaned

RECURSIVE InlineTidyLoop(_, _)
InlineTidyLoop(cleaned, comps) ==
    IF comps = <<>> THEN cleaned
    ELSE InlineTidyLoop(InlineTidyStep(cleaned, Head(comps)), Tail(comps))

InlineTidy(target_path) ==
    LET comps == Components(target_path)
    IN  IF comps # <<>> /\ Head(comps) = SEP
        THEN InlineTidyLoop(Push(<<>>, <<SEP>>), Tail(comps))
        ELSE InlineTidyLoop(<<>>, comps)

\* lines 45-57: what the loop computes about a symlink before the filters
Classify(f, path) ==
    LET target_path == ReadLink(f, path)
        link_dir == IF HasParent(path) THEN Parent(path) ELSE <<CUR>>
        target_resolved == IF IsAbsolute(target_path) THEN target_path
                           ELSE Join(link_dir, target_path)
    IN  [path |-> path,
         target_path |-> target_path,
         link_dir |-> link_dir,
         target_resolved |-> target_resolved,
         is_dangling |-> ~PathExists(f, target_resolved),
         is_absolute |-> IsAbsolute(target_path)]

\* mutant of Passes: only_attached is tested like only_dangling
Passes_AttachedSwapped(c) ==
    /\ ~(cli.only_dangling /\ ~c.is_dangling)
    /\ ~(cli.only_attached /\ ~c.is_dangling)
    /\ ~(cli.only_absolute /\ ~c.is_absolute)
    /\ ~(cli.only_relative /\ c.is_absolute)
    /\ ~(cli.filter_origin.some /\ ~IsMatch(cli.filter_origin.pat, c.path))
    /\ ~(cli.filter_target.some /\ ~IsMatch(cli.filter_target.pat, c.target_path))

\* lines 59-81: no filter says `continue`
Passes(c) ==
    /\ ~(cli.only_dangling /\ ~c.is_dangling)
    /\ ~(cli.only_attached /\ c.is_dangling)
    /\ ~(cli.only_absolute /\ ~c.is_absolute)
    /\ ~(cli.only_relative /\ c.is_absolute)
    /\ ~(cli.filter_origin.some /\ ~IsMatch(cli.filter_origin.pat, c.path))
    /\ ~(cli.filter_target.some /\ ~IsMatch(cli.filter_target.pat, c.target_path))

Settled == WdSettle(fs, stack, cli.max_depth, FALSE)

\* the entries the `for entry in walker` loop may get next
Pending ==
    IF pc # "walk" THEN {}
    ELSE LET st == Settled.stack
         IN  IF st = <<>> THEN {} ELSE Last(st).rest

Unchanged(f) == [ok |-> TRUE, fs |-> f]
Failed(f) == [ok |-> FALSE, fs |-> f]

\* mutant of RemoveThenSymlink: the new link is created before the old one
\* is removed
SymlinkThenRemove(f, path, new_target) ==
    LET c == Symlink(f, new_target, path)
    IN  IF c.ok THEN RemoveFile(c.fs, path) ELSE Failed(f)

\* fs::remove_file(path)?; symlink(new_target, path)?
RemoveThenSymlink(f, path, new_target) ==
    LET r == RemoveFile(f, path)
    IN  IF r.ok THEN Symlink(r.fs, new_target, path) ELSE Failed(f)

\* lines 19-33: the checks before the walk; "" when they pass
SetupError ==
    IF ~PathExists(fs, cli.path) THEN "root"
    ELSE IF cli.filter_origin.some /\ ~RegexValid(cli.filter_origin.pat)
         THEN "filter_origin"
    ELSE IF cli.filter_target.some /\ ~RegexValid(cli.filter_target.pat)
         THEN "filter_target"
    ELSE ""

Setup ==
    /\ pc = "start"
    /\ SetupError = ""
    /\ pc' = "walk"
    /\ stack' = <<StartFrame(fs, cli.path)>>
    /\ UNCHANGED <<fs, fs0, run, why, cli, acted, errs, link, mirrorVars, tidyVars>>

SetupFails ==
    /\ pc = "start"
    /\ SetupError # ""
    /\ pc' = "failed"
    /\ why' = SetupError
    /\ UNCHANGED <<fs, fs0, run, cli, stack, acted, errs, link, mirrorVars, tidyVars>>

\* lines 39-43 and 59-81: the iteration ends at a `continue`
SkipEntry ==
    \E e \in Pending :
        /\ ~IsSymlink(fs, e.path) \/ ~Passes(Classify(fs, e.path))
        /\ stack' = WdYield(fs, Settled.stack, e)
        /\ UNCHANGED <<fs, fs0, run, pc, why, cli, acted, errs, link, mirrorVars,
                       tidyVars>>

\* line 45: fs::read_link(path)? returns the error out of main (the link
\* vanished or became unreadable after is_symlink saw it)
ReadLinkFails ==
    \E e \in Pending :
        /\ IsSymlink(fs, e.path)
        /\ stack' = WdYield(fs, Settled.stack, e)
        /\ pc' = "failed"
        /\ why' = "read_link"
        /\ errs' = errs \cup {e.path}
        /\ UNCHANGED <<fs, fs0, run, cli, acted, link, mirrorVars, tidyVars>>

\* the loop is over: main returns Ok(())
Finish ==
    /\ pc = "walk"
    /\ Settled.stack = <<>>
    /\ pc' = "done"
    /\ stack' = <<>>
    /\ UNCHANGED <<fs, fs0, run, why, cli, acted, errs, link, mirrorVars, tidyVars>>

\* entry e is a symlink that passes the filters and reaches `match cli.command`
Dispatch(e) ==
    /\ IsSymlink(fs, e.path)
    /\ Passes(Classify(fs, e.path))
    /\ stack' = WdYield(fs, Settled.stack, e)
    /\ acted' = acted \cup {e.path}
    /\ link' = Classify(fs, e.path)

\* handle_operation: the closure's result r; an Err is printed, the loop goes on
Handled(e, r) ==
    /\ fs' = r.fs
    /\ errs' = IF r.ok THEN errs ELSE errs \cup {e.path}
    /\ UNCHANGED <<fs0, run, pc, why, cli, mirrorVars, tidyVars>>

ListCmd ==
    /\ cli.command = "list"
    /\ \E e \in Pending :
        /\ Dispatch(e)
        /\ Handled(e, Unchanged(fs))

\* mutant of DoTidy: the cleaned target is written without comparing it
DoTidy_NoGuard(f, c) ==
    IF cli.dry_run THEN Unchanged(f)
    ELSE RemoveThenSymlink(f, c.path, InlineTidy(c.target_path))

DoTidy(f, c) ==
    LET cleaned == InlineTidy(c.target_path)
    IN  IF cleaned # c.target_path /\ ~cli.dry_run
        THEN RemoveThenSymlink(f, c.path, cleaned)
        ELSE Unchanged(f)

TidyCmd ==
    /\ cli.command = "tidy"
    /\ \E e \in Pending :
        /\ Dispatch(e)
        /\ Handled(e, DoTidy(fs, Classify(fs, e.path)))

DoEditTarget(f, c) ==
    LET new_target == IF cli.replace_all
                      THEN ReplaceAll(cli.pattern, c.target_path, cli.replace)
                      ELSE ReplaceFirst(cli.pattern, c.target_path, cli.replace)
    IN  IF IsMatch(cli.pattern, c.target_path) /\ new_target # c.target_path
           /\ ~cli.dry_run
        THEN RemoveThenSymlink(f, c.path, new_target)
        ELSE Unchanged(f)

EditTargetCmd ==
    /\ cli.command = "edit-target"
    /\ \E e \in Pending :
        /\ Dispatch(e)
        /\ RegexValid(cli.pattern)
        /\ Handled(e, DoEditTarget(fs, Classify(fs, e.path)))

\* line 171: Regex::new(&pattern)? returns the error out of main
EditTargetBadPattern ==
    /\ cli.command = "edit-target"
    /\ \E e \in Pending :
        /\ Dispatch(e)
        /\ ~RegexValid(cli.pattern)
        /\ pc' = "failed"
        /\ why' = "pattern"
        /\ UNCHANGED <<fs, fs0, run, cli, errs, mirrorVars, tidyVars>>

DoToAbsolute(f, c) ==
    IF c.is_dangling \/ c.is_absolute THEN Unchanged(f)
    ELSE LET abs_target == Canonicalize(f, c.target_resolved)
         IN  IF ~abs_target.ok THEN Failed(f)
             ELSE IF cli.dry_run THEN Unchanged(f)
             ELSE RemoveThenSymlink(f, c.path, abs_target.path)

ToAbsoluteCmd ==
    /\ cli.command = "to-absolute"
    /\ \E e \in Pending :
        /\ Dispatch(e)
        /\ Handled(e, DoToAbsolute(fs, Classify(fs, e.path)))

DoToRelative(f, c) ==
    IF c.is_dangling \/ ~c.is_absolute THEN Unchanged(f)
    ELSE LET abs_target == Canonicalize(f, c.target_resolved)
             abs_link_dir == Canonicalize(f, c.link_dir)
             rel_target == diff_paths(abs_target.path, abs_link_dir.path)
         IN  IF ~abs_target.ok \/ ~abs_link_dir.ok THEN Failed(f)
             ELSE IF ~rel_target.some \/ cli.dry_run THEN Unchanged(f)
             ELSE RemoveThenSymlink(f, c.path, rel_target.path)

ToRelativeCmd ==
    /\ cli.command = "to-relative"
    /\ \E e \in Pending :
        /\ Dispatch(e)
        /\ Handled(e, DoToRelative(fs, Classify(fs, e.path)))

\* create_hard_link (src/lib.rs)
create_hard_link(f, target, origin) ==
    IF IsDir(f, target) THEN Failed(f) ELSE HardLink(f, target, origin)

\* mutant of DoToHardlink: the target is moved to the link's path
DoToHardlink_MovesTarget(f, c) ==
    IF c.is_dangling \/ IsDir(f, c.target_resolved) \/ cli.dry_run
    THEN Unchanged(f)
    ELSE LET r == RemoveFile(f, c.path)
         IN  IF r.ok
             THEN Rename(r.fs, Canonicalize(f, c.target_resolved).path, c.path)
             ELSE Failed(f)

\* mutant of DoToHardlink: the dangling test is missing
DoToHardlink_NoDanglingTest(f, c) ==
    IF IsDir(f, c.target_resolved) \/ cli.dry_run
    THEN Unchanged(f)
    ELSE LET r == RemoveFile(f, c.path)
         IN  IF r.ok THEN create_hard_link(r.fs, c.target_resolved, c.path)
             ELSE Failed(f)

DoToHardlink(f, c) ==
    IF c.is_dangling \/ IsDir(f, c.target_resolved) \/ cli.dry_run
    THEN Unchanged(f)
    ELSE LET r == RemoveFile(f, c.path)
         IN  IF r.ok THEN create_hard_link(r.fs, c.target_resolved, c.path)
             ELSE Failed(f)

ToHardlinkCmd ==
    /\ cli.command = "to-hardlink"
    /\ \E e \in Pending :
        /\ Dispatch(e)
        /\ Handled(e, DoToHardlink(fs, Classify(fs, e.path)))

\* the ToHardlinkTree and ToTree arms: the link is removed and the mirror
\* of its target is started at its place
TreeArm(e, c, hard) ==
    IF c.is_dangling \/ ~IsDir(fs, c.target_resolved) \/ cli.dry_run
    THEN Handled(e, Unchanged(fs))
    ELSE LET r == RemoveFile(fs, c.path)
             m == MirrorStart(r.fs, c.target_resolved, c.path, hard)
         IN  IF ~r.ok THEN Handled(e, Failed(fs))
             ELSE /\ fs' = m.fs
                  /\ mtarget' = c.target_resolved
                  /\ morigin' = c.path
                  /\ mhard' = hard
                  /\ mstack' = m.stack
                  /\ mres' = IF ~m.done THEN "" ELSE IF m.ok THEN "ok" ELSE "err"
                  /\ pc' = IF m.done THEN "walk" ELSE "mirror"
                  /\ errs' = IF m.done /\ ~m.ok THEN errs \cup {e.path} ELSE errs
                  /\ UNCHANGED <<fs0, run, why, cli, tidyVars>>

ToHardlinkTreeCmd ==
    /\ cli.command = "to-hardlink-tree"
    /\ \E e \in Pending :
        /\ Dispatch(e)
        /\ TreeArm(e, Classify(fs, e.path), TRUE)

ToTreeCmd ==
    /\ cli.command = "to-tree"
    /\ \E e \in Pending :
        /\ Dispatch(e)
        /\ TreeArm(e, Classify(fs, e.path), FALSE)

DoReplaceWithTarget(f, c) ==
    IF c.is_dangling \/ cli.dry_run THEN Unchanged(f)
    ELSE LET actual_target == Canonicalize(f, c.target_resolved)
             r == RemoveFile(f, c.path)
         IN  IF ~actual_target.ok THEN Failed(f)
             ELSE IF ~r.ok THEN Failed(f)
             ELSE Rename(r.fs, actual_target.path, c.path)

ReplaceWithTargetCmd ==
    /\ cli.command = "replace-with-target"
    /\ \E e \in Pending :
        /\ Dispatch(e)
        /\ Handled(e, DoReplaceWithTarget(fs, Classify(fs, e.path)))

\* mutant of DoDelete: --dry-run is not consulted
DoDelete_IgnoresDryRun(f, c) == RemoveFile(f, c.path)

DoDelete(f, c) ==
    IF cli.dry_run THEN Unchanged(f) ELSE RemoveFile(f, c.path)

DeleteCmd ==
    /\ cli.command = "delete"
    /\ \E e \in Pending :
        /\ Dispatch(e)
        /\ Handled(e, DoDelete(fs, Classify(fs, e.path)))

(***************************************************************************)
(* Spec: one run of slinky over each tree and command line of the bounded  *)
(* input set.  The trees: /r (the root of the walk and the working         *)
(* directory) holds the file g, the directory d with the file f, and up to *)
(* two symlinks, /r/x and /r/d/y.                                          *)
(***************************************************************************)
P(segs) == JoinSegs(segs)
A(segs) == <<SEP>> \o JoinSegs(segs)

BaseTree ==
    (RootDir :> Dir(10)) @@ (<<"r">> :> Dir(11)) @@ (<<"r", "d">> :> Dir(12))
    @@ (<<"r", "d", "f">> :> File(1, 0)) @@ (<<"r", "g">> :> File(2, 0))

\* stored targets of /r/x
TargetsX ==
    { P(<<"g">>), P(<<CUR, "g">>), P(<<"d">>), P(<<"d", PAR, "g">>),
      P(<<"nope">>), P(<<CUR>>), A(<<"r", "g">>), A(<<"r", CUR, "d">>),
      A(<<"nope">>), P(<<"d", "y">>), A(<<"r">>) }

\* stored targets of /r/d/y
TargetsY ==
    { P(<<"f">>), P(<<PAR, "g">>), P(<<PAR>>), P(<<"nope">>),
      A(<<"r", "d", "f">>), P(<<PAR, "x">>) }

Absent == <<"<absent>">>

Tree(tx, ty) ==
    BaseTree
    @@ (IF tx = Absent THEN EmptyFs ELSE (<<"r", "x">> :> Link(3, tx)))
    @@ (IF ty = Absent THEN EmptyFs ELSE (<<"r", "d", "y">> :> Link(4, ty)))

\* every target of one link beside a plain other link, one link alone, the
\* two links pointing at each other, and a tree without symlinks
\* the directory d also holds h, a file of another device, and /r/x points
\* at h or at d
ForeignTrees ==
    {Tree(tx, Absent) @@ (<<"r", "d", "h">> :> File(8, 1)) :
        tx \in {P(<<"d", "h">>), P(<<"d">>)}}

Trees ==
    {Tree(tx, P(<<"f">>)) : tx \in TargetsX}
    \cup {Tree(P(<<"g">>), ty) : ty \in TargetsY}
    \cup {Tree(tx, Absent) : tx \in TargetsX}
    \cup {Tree(P(<<"d", "y">>), P(<<PAR, "x">>)), Tree(Absent, Absent)}
    \cup ForeignTrees

Commands ==
    {"list", "tidy", "edit-target", "to-absolute", "to-relative", "to-hardlink",
     "to-hardlink-tree", "to-tree", "replace-with-target", "delete"}

NoFilter == [some |-> FALSE, pat |-> ""]
Filter(pat) == [some |-> TRUE, pat |-> pat]

PlainCli(command, dry_run) ==
    [path |-> A(<<"r">>), command |-> command, dry_run |-> dry_run,
     only_dangling |-> FALSE, only_attached |-> FALSE,
     only_absolute |-> FALSE, only_relative |-> FALSE,
     filter_origin |-> NoFilter, filter_target |-> NoFilter,
     max_depth |-> NoDepth,
     pattern |-> "", replace |-> <<>>, replace_all |-> FALSE]

\* every command, with and without --dry-run, no filter
CommandClis ==
    {PlainCli(c, n) : c \in Commands \ {"edit-target"}, n \in BOOLEAN}

\* edit-target PATTERN REPLACE [--replace-all]
EditClis ==
    {[PlainCli("edit-target", n) EXCEPT
        !.pattern = pat, !.replace = rep, !.replace_all = all] :
        n \in BOOLEAN, pat \in {"g", "zz", BadRegex},
        rep \in {<<"d">>, <<>>}, all \in BOOLEAN}

\* the status filters, the depth bound and the regex filters
FilterClis ==
    {[PlainCli(c, FALSE) EXCEPT
        !.only_dangling = od, !.only_attached = oa,
        !.only_absolute = ob, !.only_relative = orl] :
        c \in {"list", "delete"},
        od \in BOOLEAN, oa \in BOOLEAN, ob \in BOOLEAN, orl \in BOOLEAN}
    \cup
    {[PlainCli(c, FALSE) EXCEPT
        !.filter_origin = fo, !.filter_target = ft, !.max_depth = md] :
        c \in {"list", "delete"},
        fo \in {NoFilter, Filter("d"), Filter(BadRegex)},
        ft \in {NoFilter, Filter("g"), Filter(BadRegex)},
        md \in {NoDepth, [some |-> TRUE, val |-> 1]}}

\* a root path that does not exist
BadRootClis ==
    {[c EXCEPT !.path = A(<<"nope">>)] : c \in CommandClis}

\* a root path that is itself a symlink
RootLinkClis ==
    {[PlainCli("list", FALSE) EXCEPT !.path = A(<<"r", "x">>)]}

Clis ==
    CommandClis \cup EditClis \cup FilterClis \cup BadRootClis
    \cup RootLinkClis

Init ==
    /\ fs \in Trees
    /\ fs0 = fs
    /\ run = 1
    /\ cli \in Clis
    /\ pc = "start"
    /\ why = ""
    /\ stack = <<>>
    /\ acted = {}
    /\ errs = {}
    /\ link = NoLink
    /\ MirrorIdle
    /\ TidyIdle

Next ==
    \/ Setup
    \/ SetupFails
    \/ SkipEntry
    \/ ReadLinkFails
    \/ ListCmd
    \/ TidyCmd
    \/ EditTargetCmd
    \/ EditTargetBadPattern
    \/ ToAbsoluteCmd
    \/ ToRelativeCmd
    \/ ToHardlinkCmd
    \/ ToHardlinkTreeCmd
    \/ ToTreeCmd
    \/ ReplaceWithTargetCmd
    \/ DeleteCmd
    \/ MirrorStep
    \/ MirrorEnd
    \/ Finish

Spec == Init /\ [][Next]_vars

(***************************************************************************)
(* The runs of the two tree conversions, with the fairness of a            *)
(* sequential program: while main has a next step it takes it              *)
(***************************************************************************)
TreeInit ==
    /\ fs \in Trees
    /\ fs0 = fs
    /\ run = 1
    /\ cli \in {PlainCli(c, FALSE) : c \in {"to-hardlink-tree", "to-tree"}}
    /\ pc = "start"
    /\ why = ""
    /\ stack = <<>>
    /\ acted = {}
    /\ errs = {}
    /\ link = NoLink
    /\ MirrorIdle
    /\ TidyIdle

TreeNext ==
    \/ Setup
    \/ SkipEntry
    \/ ReadLinkFails
    \/ ToHardlinkTreeCmd
    \/ ToTreeCmd
    \/ MirrorStep
    \/ MirrorEnd
    \/ Finish

\* main has returned
Returned == pc \in {"done", "failed"}

\* Weak fairness of TreeNext, with "TreeNext is disabled" written as the
\* state predicate it amounts to: a step of TreeNext that changes the state
\* exists exactly while main has not returned.
FairSpecTree ==
    /\ TreeInit
    /\ [][TreeNext]_vars
    /\ ([]<>Returned \/ []<><<TreeNext>>_vars)

(***************************************************************************)
(* The same command line run twice in a row, for the commands that         *)
(* rewrite a stored target                                                 *)
(***************************************************************************)
Retargeting == {"tidy", "edit-target", "to-absolute", "to-relative"}

\* edit-target whose replacement contains the pattern again
EditGrowClis ==
    {[PlainCli("edit-target", FALSE) EXCEPT
        !.pattern = "g", !.replace = <<"d", SEP, "g">>, !.replace_all = all] :
        all \in BOOLEAN}

AgainClis == {c \in Clis : c.command \in Retargeting} \cup EditGrowClis

AgainInit ==
    /\ fs \in Trees
    /\ fs0 = fs
    /\ run = 1
    /\ cli \in AgainClis
    /\ pc = "start"
    /\ why = ""
    /\ stack = <<>>
    /\ acted = {}
    /\ errs = {}
    /\ link = NoLink
    /\ MirrorIdle
    /\ TidyIdle

\* the first invocation returned Ok(()); the shell starts the second one on
\* the tree the first one left
RunAgain ==
    /\ pc = "done"
    /\ run = 1
    /\ run' = 2
    /\ fs0' = fs
    /\ pc' = "start"
    /\ stack' = <<>>
    /\ acted' = {}
    /\ errs' = {}
    /\ link' = NoLink
    /\ UNCHANGED <<fs, why, cli, mirrorVars, tidyVars>>

AgainNext ==
    \/ Setup
    \/ SetupFails
    \/ SkipEntry
    \/ ReadLinkFails
    \/ TidyCmd
    \/ EditTargetCmd
    \/ EditTargetBadPattern
    \/ ToAbsoluteCmd
    \/ ToRelativeCmd
    \/ Finish
    \/ RunAgain

SpecAgain == AgainInit /\ [][AgainNext]_vars

(***************************************************************************)
(* slinky-ln (src/bin/slinky-ln.rs): main, in three steps: the origin path *)
(* is determined, --force removes what is there, the link is created.      *)
(* mtarget holds base_target_path and morigin holds origin_path.           *)
(***************************************************************************)
NoArg == [some |-> FALSE, path |-> <<>>]
Arg(s) == [some |-> TRUE, path |-> s]

\* Path::file_name: the last component when it is a normal one
FileName(s) ==
    LET c == NextBack(s)
    IN  [some |-> IsNormal(c), name |-> <<c>>]

\* the fallback loop of dereference_symlink; hang: it did not end within
\* MaxFollow rounds
RECURSIVE DerefLoop(_, _, _)
DerefLoop(f, current, fuel) ==
    IF ~IsSymlink(f, current) THEN [hang |-> FALSE, path |-> current]
    ELSE IF fuel = 0 THEN [hang |-> TRUE, path |-> current]
    ELSE LET next == ReadLink(f, current)
         IN  DerefLoop(f,
                       IF IsAbsolute(next) THEN next
                       ELSE IF HasParent(current)
                            THEN Join(Parent(current), next)
                       ELSE next,
                       fuel - 1)

dereference_symlink(f, path) ==
    IF ~IsSymlink(f, path) THEN [hang |-> FALSE, path |-> path]
    ELSE LET c == Canonicalize(f, path)
         IN  IF c.ok THEN [hang |-> FALSE, path |-> c.path]
             ELSE DerefLoop(f, path, MaxFollow)

LnFails(reason) ==
    /\ pc' = "failed"
    /\ why' = reason
    /\ UNCHANGED <<fs, mtarget, morigin, mstack, mres>>

\* lines 13-40
LnOrigin ==
    /\ pc = "ln_origin"
    /\ IF ~cli.target.some THEN LnFails("target_required")
       ELSE
       LET base == IF cli.dereference
                   THEN dereference_symlink(fs, cli.target.path)
                   ELSE [hang |-> FALSE, path |-> cli.target.path]
           origin_input == IF cli.origin.some THEN cli.origin.path ELSE <<CUR>>
           resolved_target == IF PathExists(fs, base.path)
                              THEN Canonicalize(fs, base.path).path
                              ELSE base.path
           file_name == FileName(resolved_target)
       IN  IF base.hang
           THEN /\ pc' = "hang"
                /\ UNCHANGED <<fs, why, mtarget, morigin, mstack, mres>>
           ELSE IF IsDir(fs, origin_input) /\ ~file_name.some
           THEN LnFails("basename")
           ELSE /\ mtarget' = base.path
                /\ morigin' = IF IsDir(fs, origin_input)
                              THEN Join(origin_input, file_name.name)
                              ELSE origin_input
                /\ pc' = "ln_force"
                /\ UNCHANGED <<fs, why, mstack, mres>>
    /\ UNCHANGED <<fs0, run, cli, stack, acted, errs, link, mhard, tidyVars>>

\* lines 42-44
LnForce ==
    /\ pc = "ln_force"
    /\ IF cli.force /\ PathExists(fs, morigin)
       THEN LET r == RemoveFile(fs, morigin)
            IN  IF r.ok
                THEN /\ fs' = r.fs
                     /\ pc' = "ln_create"
                     /\ UNCHANGED <<why, mtarget, morigin, mstack, mres>>
                ELSE LnFails("force")
       ELSE /\ pc' = "ln_create"
            /\ UNCHANGED <<fs, why, mtarget, morigin, mstack, mres>>
    /\ UNCHANGED <<fs0, run, cli, stack, acted, errs, link, mhard, tidyVars>>

\* a step of main that ends the run with result r
LnEnds(r, reason) ==
    /\ fs' = r.fs
    /\ pc' = IF r.ok THEN "done" ELSE "failed"
    /\ why' = IF r.ok THEN why ELSE reason
    /\ UNCHANGED <<mtarget, morigin, mstack, mres>>

\* lines 98-115: the string the symlink will store
TargetContents ==
    IF cli.absolute
    THEN LET a == Canonicalize(fs, mtarget) IN [ok |-> a.ok, str |-> a.path]
    ELSE IF cli.relative
    THEN LET abs_target == Canonicalize(fs, mtarget)
             origin_parent == IF HasParent(morigin) /\ Parent(morigin) # <<>>
                              THEN Parent(morigin) ELSE <<CUR>>
             abs_origin_parent == Canonicalize(fs, origin_parent)
             d == diff_paths(abs_target.path, abs_origin_parent.path)
         IN  [ok |-> abs_target.ok /\ abs_origin_parent.ok /\ d.some,
              str |-> d.path]
    ELSE [ok |-> TRUE, str |-> mtarget]

\* lines 46-129
LnCreate ==
    /\ pc = "ln_create"
    /\ LET target_exists == PathExists(fs, mtarget)
       IN  IF cli.tree
           THEN IF ~target_exists THEN LnFails("no_target")
                ELSE IF cli.dry_run THEN LnEnds(Unchanged(fs), "")
                ELSE LET m == MirrorStart(fs, mtarget, morigin, cli.hard)
                     IN  /\ fs' = m.fs
                         /\ mstack' = m.stack
                         /\ mres' = IF ~m.done THEN ""
                                    ELSE IF m.ok THEN "ok" ELSE "err"
                         /\ pc' = IF ~m.done THEN "mirror"
                                  ELSE IF m.ok THEN "done" ELSE "failed"
                         /\ why' = IF m.done /\ ~m.ok THEN "mirror" ELSE why
                         /\ UNCHANGED <<mtarget, morigin>>
           ELSE IF cli.hard
           THEN IF ~target_exists THEN LnFails("no_target")
                ELSE IF cli.dry_run THEN LnEnds(Unchanged(fs), "")
                ELSE LnEnds(create_hard_link(fs, mtarget, morigin), "hard_link")
           ELSE IF ~target_exists /\ ~cli.allow_dangling
                THEN LnFails("no_target")
                ELSE IF ~TargetContents.ok THEN LnFails("contents")
                ELSE IF cli.dry_run THEN LnEnds(Unchanged(fs), "")
                ELSE LnEnds(Symlink(fs, TargetContents.str, morigin), "symlink")
    /\ mhard' = cli.hard
    /\ UNCHANGED <<fs0, run, cli, stack, acted, errs, link, tidyVars>>

(***************************************************************************)
(* SpecLn: one run of slinky-ln in /r over each tree and command line of   *)
(* the bounded input set.  Beside d, f and g the tree holds up to two      *)
(* symlinks, /r/x and /r/d/y, and at /r/o nothing, a file, a symlink, an   *)
(* empty directory or a directory that holds a directory d with a file e.  *)
(***************************************************************************)
LnTree(x, y, o) ==
    BaseTree
    @@ (IF x = Absent THEN EmptyFs ELSE (<<"r", "x">> :> Link(3, x)))
    @@ (IF y = Absent THEN EmptyFs ELSE (<<"r", "d", "y">> :> Link(4, y)))
    @@ (IF o = "file" THEN (<<"r", "o">> :> File(5, 0))
        ELSE IF o = "link" THEN (<<"r", "o">> :> Link(6, P(<<"g">>)))
        ELSE IF o = "dangling" THEN (<<"r", "o">> :> Link(6, P(<<"nope">>)))
        ELSE IF o = "dir" THEN (<<"r", "o">> :> Dir(13))
        ELSE IF o = "full"
             THEN (<<"r", "o">> :> Dir(13)) @@ (<<"r", "o", "d">> :> Dir(14))
                  @@ (<<"r", "o", "d", "e">> :> File(7, 0))
        ELSE EmptyFs)

\* a tree whose directory d also holds h, a file of another device
CrossDeviceTree ==
    LnTree(Absent, Absent, "absent") @@ (<<"r", "d", "h">> :> File(8, 1))

LnTrees ==
    {LnTree(x, y, o) :
        x \in {Absent, P(<<"g">>), P(<<"nope">>)},
        y \in {Absent, P(<<PAR>>), P(<<"f">>)},
        o \in {"absent", "file", "link", "dangling", "dir", "full"}}
    \cup {CrossDeviceTree}

\* the link kinds the argument parser admits (src/cli.rs, conflicts_with_all)
LnModes ==
    {[absolute |-> ab, relative |-> re, allow_dangling |-> ad,
      hard |-> h, tree |-> t] :
        ab \in BOOLEAN, re \in BOOLEAN, ad \in BOOLEAN,
        h \in BOOLEAN, t \in BOOLEAN}

Admitted(m) ==
    /\ m.absolute => ~(m.relative \/ m.allow_dangling \/ m.hard \/ m.tree)
    /\ m.relative => ~(m.allow_dangling \/ m.hard \/ m.tree)
    /\ m.allow_dangling => ~(m.hard \/ m.tree)

LnCli(target, origin, m, force, dereference, dry_run) ==
    [command |-> "ln", target |-> target, origin |-> origin,
     force |-> force, dereference |-> dereference, dry_run |-> dry_run,
     absolute |-> m.absolute, relative |-> m.relative,
     allow_dangling |-> m.allow_dangling, hard |-> m.hard, tree |-> m.tree]

LnClis ==
    {LnCli(Arg(t), o, m, f, l, n) :
        t \in {P(<<"g">>), P(<<"d">>), P(<<"nope">>), P(<<"x">>)},
        o \in {NoArg, Arg(P(<<"o">>)), Arg(P(<<"n">>))},
        m \in {k \in LnModes : Admitted(k)},
        f \in BOOLEAN, l \in BOOLEAN, n \in BOOLEAN}
    \cup {LnCli(NoArg, NoArg, CHOOSE k \in LnModes : k.relative, FALSE, FALSE, FALSE)}

LnInit ==
    /\ fs \in LnTrees
    /\ fs0 = fs
    /\ run = 1
    /\ cli \in LnClis
    /\ pc = "ln_origin"
    /\ why = ""
    /\ stack = <<>>
    /\ acted = {}
    /\ errs = {}
    /\ link = NoLink
    /\ MirrorIdle
    /\ TidyIdle

LnNext ==
    \/ LnOrigin
    \/ LnForce
    \/ LnCreate
    \/ MirrorStep
    \/ MirrorEnd

SpecLn == LnInit /\ [][LnNext]_vars

(***************************************************************************)
(* SpecDiff: pathdiff::diff_paths on canonical absolute paths, as          *)
(* to-relative and slinky-ln --relative call it, and the stored result     *)
(* joined back onto the directory as the classification joins it.          *)
(***************************************************************************)
DiffNames == {"a", "b"}

\* canonical absolute paths: the root, or names after it
DiffPaths == {A(segs) : segs \in SeqsUpTo(DiffNames, MaxDiffDepth)}

DiffInit ==
    /\ tpc = "diff_input"
    /\ tin \in DiffPaths \X DiffPaths
    /\ tout = <<>>
    /\ tout2 = <<>>
    /\ FsIdle /\ WalkIdle /\ MirrorIdle

\* pathdiff::diff_paths(&abs_target, &abs_link_dir): tin is <<dir, target>>
ApplyDiff ==
    /\ tpc = "diff_input"
    /\ tout' = diff_paths(tin[2], tin[1])
    /\ tpc' = "diffed"
    /\ UNCHANGED <<tin, tout2, fsVars, walkVars, mirrorVars>>

\* link_dir.join(&target_path), reduced lexically
JoinBack ==
    /\ tpc = "diffed"
    /\ tout.some
    /\ tout2' = tidy_path(Join(tin[1], tout.path))
    /\ tpc' = "joined"
    /\ UNCHANGED <<tin, tout, fsVars, walkVars, mirrorVars>>

DiffNext == ApplyDiff \/ JoinBack

SpecDiff == DiffInit /\ [][DiffNext]_vars

(***************************************************************************)
(* Claims about tidy_path                                                  *)
(***************************************************************************)
\* the fold of the claim, on component sequences: keep the leading root,
\* append names, drop ".", and for ".." pop a name, keep it on an empty
\* accumulator or after another "..", drop it at the root
RECURSIVE NormalFold(_, _)
NormalFold(acc, comps) ==
    IF comps = <<>> THEN acc
    ELSE LET c == Head(comps)
             nxt == IF c = SEP THEN <<SEP>>
                    ELSE IF c = CUR THEN acc
                    ELSE IF c = PAR THEN
                        IF acc = <<>> THEN <<PAR>>
                        ELSE IF Last(acc) = PAR THEN Append(acc, PAR)
                        ELSE IF Last(acc) = SEP THEN acc
                        ELSE Front(acc)
                    ELSE Append(acc, c)
         IN  NormalFold(nxt, Tail(comps))

\* a component sequence written out: the root, then the rest joined by "/"
Render(comps) ==
    IF comps # <<>> /\ Head(comps) = SEP
    THEN <<SEP>> \o JoinSegs(Tail(comps))
    ELSE JoinSegs(comps)

TidyExamples ==
    { <<MkPath(FALSE, <<"a", "b", PAR, "c">>, "plain"), MkPath(FALSE, <<"a", "c">>, "plain")>>,
      <<MkPath(FALSE, <<"a", PAR, PAR, "b">>, "plain"), MkPath(FALSE, <<PAR, "b">>, "plain")>>,
      <<MkPath(TRUE, <<PAR, "a">>, "plain"), MkPath(TRUE, <<"a">>, "plain")>>,
      <<MkPath(TRUE, <<PAR, PAR, "a">>, "plain"), MkPath(TRUE, <<"a">>, "plain")>>,
      <<MkPath(FALSE, <<PAR, "a", PAR, "b">>, "plain"), MkPath(FALSE, <<PAR, "b">>, "plain")>> }

\* C1: for every input, tidy_path returns the fold of the input's components
\* (root kept, names appended, "." dropped, ".." popping a name, kept when the
\* accumulator is empty or ends in "..", dropped at the root), and the five
\* examples of the claim come out as stated.
C1_TidyIsFold ==
    tpc # "input" =>
        /\ tout = Render(NormalFold(<<>>, Components(tin)))
        /\ \A ex \in TidyExamples : tin = ex[1] => tout = ex[2]

C1_Witness ==
    /\ tpc = "once"
    /\ tin = <<"a", SEP, PAR, SEP, PAR, SEP, "b">>
    /\ tout = <<PAR, SEP, "b">>

\* C2: tidy_path is idempotent: applying it to its own result changes nothing.
C2_TidyIdempotent ==
    tpc = "twice" => tout2 = tout

C2_Witness ==
    /\ tpc = "twice"
    /\ tin = <<SEP, PAR, SEP, "a", SEP, "b", SEP, PAR>>
    /\ tout = <<SEP, "a">>
    /\ tout2 = tout

(***************************************************************************)
(* Claims about a slinky run                                               *)
(***************************************************************************)
Terminated == pc \in {"done", "failed"}

\* the canonical path of the root of the walk, and the symlinks of file
\* system f under it
RootPath == Resolve(fs0, cli.path, TRUE).p

LinksUnderRoot(f) ==
    {q \in DOMAIN f : f[q].kind = "link" /\ IsPrefix(RootPath, q) /\ q # RootPath}

\* the path under which the walk yields the entry at canonical path q
OriginOf(q) ==
    Join(cli.path, JoinSegs(SubSeq(q, Len(RootPath) + 1, Len(q))))

\* C3: after a non-dry-run tidy, every link the walk dispatched is still a
\* symlink at its origin and stores the normal form of its former target;
\* a link whose target was already normal is the same node as before.
C3_TidyKeepsLink ==
    (pc = "done" /\ cli.command = "tidy" /\ ~cli.dry_run) =>
        \A q \in LinksUnderRoot(fs0) :
            OriginOf(q) \in acted =>
                /\ q \in DOMAIN fs
                /\ fs[q].kind = "link"
                /\ fs[q].target = tidy_path(fs0[q].target)
                /\ tidy_path(fs0[q].target) = fs0[q].target => fs[q] = fs0[q]

\* the predicates of the claim, on the canonical path of a link
DanglingAt(f, q) ==
    Lookup(f, IF IsAbsolute(f[q].target) THEN RootDir ELSE ParentOf(q),
           Toks(f[q].target), TRUE, MaxFollow).st # "ok"

AbsoluteAt(f, q) == f[q].target # <<>> /\ Head(f[q].target) = SEP

EveryPredicateHolds(f, q) ==
    /\ cli.filter_target.some => IsMatch(cli.filter_target.pat, f[q].target)
    /\ cli.filter_origin.some => IsMatch(cli.filter_origin.pat, OriginOf(q))
    /\ cli.only_relative => ~AbsoluteAt(f, q)
    /\ cli.only_absolute => AbsoluteAt(f, q)
    /\ cli.only_attached => ~DanglingAt(f, q)
    /\ cli.only_dangling => DanglingAt(f, q)
    /\ cli.max_depth.some => Len(q) - Len(RootPath) <= cli.max_depth.val

ExclusivePair ==
    \/ cli.only_dangling /\ cli.only_attached
    \/ cli.only_absolute /\ cli.only_relative

\* C4: when the run over a root directory ends without having changed the
\* tree, the links it dispatched are exactly the symlinks under the root
\* for which every
\* active predicate holds (dangling by resolution, absolute by the stored
\* string), whatever the order the predicates are evaluated in; with both
\* members of an exclusive pair no link is dispatched and the run succeeds.
C4_ActedIsConjunction ==
    /\ (pc = "done" /\ fs = fs0 /\ ~IsSymlink(fs0, cli.path)) =>
          acted = {OriginOf(q) : q \in
                      {l \in LinksUnderRoot(fs0) : EveryPredicateHolds(fs0, l)}}
    /\ (ExclusivePair /\ pc \notin {"start", "failed"}) =>
          acted = {} /\ fs = fs0 /\ errs = {}
    /\ (ExclusivePair /\ pc = "failed") =>
          why \in {"root", "filter_origin", "filter_target", "read_link"}

C4_Witness ==
    /\ pc = "done" /\ fs = fs0
    /\ cli.only_attached /\ cli.only_relative
    /\ ~cli.only_dangling /\ ~cli.only_absolute
    /\ acted = {A(<<"r", "d", "y">>)}
    /\ Cardinality(LinksUnderRoot(fs0)) = 2

NeedsAttached ==
    {"to-absolute", "to-relative", "to-hardlink", "to-hardlink-tree", "to-tree",
     "replace-with-target"}

\* the step dispatched a link that the command refuses: dangling, or a
\* directory for to-hardlink, or no directory for the two tree commands
Refused ==
    /\ acted' # acted
    /\ \/ cli.command \in NeedsAttached /\ link'.is_dangling
       \/ cli.command = "to-hardlink" /\ IsDir(fs, link'.target_resolved)
       \/ cli.command \in {"to-tree", "to-hardlink-tree"}
          /\ ~IsDir(fs, link'.target_resolved)

\* C5: a step that dispatches a refused link changes nothing in the file
\* system, reports no error and leaves the run going; and no run of these
\* commands ends in failure after the walk began, save a failed read_link.
C5_RefusedLeavesLink ==
    /\ [][Refused => (fs' = fs /\ pc' = "walk" /\ errs' = errs)]_vars
    /\ [](cli.command \in NeedsAttached /\ pc = "failed"
            => why \in {"root", "read_link"})

C5_Witness ==
    /\ pc = "done"
    /\ cli.command = "to-hardlink" /\ ~cli.dry_run
    /\ link.path = A(<<"r", "x">>) /\ link.is_dangling
    /\ A(<<"r", "x">>) \in acted
    /\ fs[<<"r", "x">>] = fs0[<<"r", "x">>]

\* C6: no per-entry error aborts the batch: when the run is over and some
\* entry failed (and no setup error ended the run), every symlink of the
\* tree that passes the filters was dispatched or is the entry that failed.
C6_NoEntryErrorAborts ==
    (Terminated /\ errs # {}
        /\ why \notin {"root", "filter_origin", "filter_target", "pattern"}) =>
        \A q \in LinksUnderRoot(fs0) :
            EveryPredicateHolds(fs0, q) => OriginOf(q) \in acted \cup errs

BadInput ==
    \/ ~PathExists(fs0, cli.path)
    \/ cli.filter_origin.some /\ ~RegexValid(cli.filter_origin.pat)
    \/ cli.filter_target.some /\ ~RegexValid(cli.filter_target.pat)
    \/ cli.command = "edit-target" /\ ~RegexValid(cli.pattern)

\* C7: a nonexistent root or an invalid regex (either filter, or the
\* edit-target pattern) makes the run fail, for every tree, before any
\* entry is visited and before any mutation (runs ended by a failing
\* read_link aside).
C7_BadInputFailsFirst ==
    (BadInput /\ Terminated /\ why # "read_link") =>
        pc = "failed" /\ stack = <<>> /\ acted = {} /\ fs = fs0

\* C8: with --dry-run the file system stays exactly as it was, in every
\* state of the run, for every command and tree.
C8_DryRunChangesNothing ==
    cli.dry_run => fs = fs0

C8_Witness ==
    /\ pc = "done" /\ cli.dry_run
    /\ cli.command = "to-tree"
    /\ A(<<"r", "x">>) \in acted
    /\ ~link.is_dangling /\ IsDir(fs, link.target_resolved)
    /\ fs = fs0

(***************************************************************************)
(* Claims about slinky-ln and the tree mirror                              *)
(***************************************************************************)
\* C9: with --dry-run slinky-ln leaves the file system exactly as it was,
\* in every state of the run and for every flag combination, --force
\* included: what was at the origin path is still there.
C9_LnDryRunChangesNothing ==
    cli.dry_run => fs = fs0

\* the relative paths of the entries of f below canonical path p
Below(f, p) ==
    {SubSeq(q, Len(p) + 1, Len(q)) :
        q \in {r \in DOMAIN f : IsPrefix(p, r) /\ r # p}}

SameKind(m, n) == (m.kind = "dir") <=> (n.kind = "dir")

\* C10: when the mirror of a directory source returned Ok, the destination
\* holds exactly the relative paths the source holds, a directory where
\* the source has a directory and a non-directory where it has none.
C10_MirrorIsomorphic ==
    (pc = "done" /\ cli.tree /\ ~cli.dry_run /\ mres = "ok"
        /\ IsDir(fs, mtarget)) =>
        LET s == Resolve(fs, mtarget, TRUE).p
            d == Resolve(fs, morigin, TRUE).p
        IN  /\ IsDir(fs, morigin)
            /\ Below(fs, d) = Below(fs, s)
            /\ \A rel \in Below(fs, s) \cap Below(fs, d) :
                  SameKind(fs[s \o rel], fs[d \o rel])

\* the entry a path ends at when its last name is followed as a link
FinalOf(f, q) == Lookup(f, ParentOf(q), <<Last(q)>>, TRUE, MaxFollow)

\* a file of the source: an entry that is no directory and leads to none
FileLike(f, q) ==
    /\ f[q].kind # "dir"
    /\ ~(FinalOf(f, q).st = "ok" /\ f[FinalOf(f, q).p].kind = "dir")

\* destination node n is the link the mirror owes to source entry q
MirrorsFile(f, q, n) ==
    IF cli.hard
    THEN n.ino = f[q].ino /\ n.dev = f[q].dev /\ n.kind = f[q].kind
    ELSE /\ n.kind = "link"
         /\ IsAbsolute(n.target)
         /\ FinalOf(f, q).st = "ok"
         /\ n.target = ToStr(FinalOf(f, q).p)
         /\ Resolve(f, n.target, TRUE) = [st |-> "ok", p |-> FinalOf(f, q).p]

MirrorSucceeded == pc = "done" /\ cli.tree /\ ~cli.dry_run /\ mres = "ok"

\* C11: after a successful mirror of a directory, every file of the source
\* (an entry that neither is nor leads to a directory) has at the same
\* relative path of the destination a hard link of the same device and
\* inode (hardlink mode) or a symlink storing the file's canonical
\* absolute path, which resolves to the file (symlink mode); a source that
\* is no directory gets that single link at the destination path.
C11_MirrorLinksFiles ==
    MirrorSucceeded =>
        IF IsDir(fs, mtarget)
        THEN LET s == Resolve(fs, mtarget, TRUE).p
                 d == Resolve(fs, morigin, TRUE).p
             IN  \A rel \in Below(fs, s) :
                    FileLike(fs, s \o rel) =>
                        /\ d \o rel \in DOMAIN fs
                        /\ MirrorsFile(fs, s \o rel, fs[d \o rel])
        ELSE LET s == Resolve(fs, mtarget, FALSE)
                 d == Resolve(fs, morigin, FALSE)
             IN  /\ s.st = "ok" /\ d.st = "ok"
                 /\ MirrorsFile(fs, s.p, fs[d.p])

C11_Witness ==
    /\ MirrorSucceeded /\ ~cli.hard
    /\ mtarget = P(<<"d">>) /\ morigin = P(<<"n">>)
    /\ <<"r", "n", "f">> \in DOMAIN fs
    /\ fs[<<"r", "n", "f">>].target = A(<<"r", "d", "f">>)
    /\ <<"r", "n", "y">> \in DOMAIN fs
    /\ fs[<<"r", "n", "y">>].target = A(<<"r", "d", "f">>)

\* the source is a directory holding a file of another device than the
\* directory the destination is made in
ForeignFileInSource ==
    /\ IsDir(fs0, mtarget)
    /\ \E q \in DOMAIN fs0 :
        /\ IsPrefix(Resolve(fs0, mtarget, TRUE).p, q)
        /\ fs0[q].kind = "file"
        /\ fs0[q].dev # fs0[Cwd].dev

HardMirrorRun == cli.command = "ln" /\ cli.tree /\ cli.hard /\ ~cli.dry_run

\* C12: a hardlink-mode mirror over a source with a file of another device
\* never returns Ok and leaves no regular file that the tree did not hold
\* before; the step in which the mirror fails changes nothing and ends the
\* run (no later step), and no step of the mirror removes or alters an
\* entry, so what was created before the failing entry stays.
C12_CrossDeviceFails ==
    /\ []((HardMirrorRun /\ ForeignFileInSource /\ Terminated) =>
            /\ pc = "failed"
            /\ \A q \in DOMAIN fs :
                  fs[q].kind = "file" =>
                      \E p \in DOMAIN fs0 : fs0[p] = fs[q])
    /\ [][(HardMirrorRun /\ pc = "mirror") =>
            /\ \A q \in DOMAIN fs : q \in DOMAIN fs' /\ fs'[q] = fs[q]
            /\ pc' = "failed" => fs' = fs /\ mstack' = <<>>]_vars
    /\ [][pc # "failed"]_vars

C12_Witness ==
    /\ HardMirrorRun /\ ForeignFileInSource
    /\ pc = "failed" /\ why = "mirror"
    /\ morigin = P(<<"n">>)
    /\ <<"r", "n", "f">> \in DOMAIN fs
    /\ fs[<<"r", "n", "f">>].ino = fs0[<<"r", "d", "f">>].ino
    /\ <<"r", "n", "h">> \notin DOMAIN fs

(***************************************************************************)
(* Claims about the converting and retargeting commands of slinky          *)
(***************************************************************************)
\* the links of the initial tree that the finished run dispatched
ActedLinks == {q \in LinksUnderRoot(fs0) : OriginOf(q) \in acted}

\* in the initial tree link q resolves to an entry / to a directory
Attached0(q) == FinalOf(fs0, q).st = "ok"
ToDir0(q) == Attached0(q) /\ fs0[FinalOf(fs0, q).p].kind = "dir"

\* C13: after a non-dry-run to-tree or to-hardlink-tree, every dispatched
\* link that resolved to a directory t is a real directory that mirrors t:
\* a real directory for each subdirectory, for each regular file a symlink
\* to its canonical path (to-tree) or a hard link of its inode
\* (to-hardlink-tree); t and everything under it is as before.
C13_TreeReplacesLink ==
    (pc = "done" /\ cli.command \in {"to-tree", "to-hardlink-tree"}
        /\ ~cli.dry_run) =>
        \A q \in {l \in ActedLinks : ToDir0(l)} :
            LET t == FinalOf(fs0, q).p
            IN  /\ q \in DOMAIN fs /\ fs[q].kind = "dir"
                /\ \A rel \in Below(fs0, t) :
                      fs0[t \o rel].kind \in {"dir", "file"} =>
                          /\ q \o rel \in DOMAIN fs
                          /\ IF fs0[t \o rel].kind = "dir"
                             THEN fs[q \o rel].kind = "dir"
                             ELSE IF cli.command = "to-tree"
                             THEN /\ fs[q \o rel].kind = "link"
                                  /\ fs[q \o rel].target = ToStr(t \o rel)
                             ELSE /\ fs[q \o rel].kind = "file"
                                  /\ fs[q \o rel].ino = fs0[t \o rel].ino
                /\ \A p \in DOMAIN fs0 :
                      (IsPrefix(t, p) /\ p # q) =>
                          p \in DOMAIN fs /\ fs[p] = fs0[p]

\* C14: after a non-dry-run to-hardlink, every dispatched link whose
\* operation reported no error and that resolved (through any chain of
\* links) to a regular file is no symlink any more and has the device and
\* inode of that file, which is still at its path.
C14_HardlinkOfFinalFile ==
    (pc = "done" /\ cli.command = "to-hardlink" /\ ~cli.dry_run) =>
        \A q \in ActedLinks :
            (Attached0(q) /\ ~ToDir0(q) /\ OriginOf(q) \notin errs) =>
                LET p == FinalOf(fs0, q).p
                IN  /\ q \in DOMAIN fs
                    /\ fs[q].kind # "link"
                    /\ fs[q].ino = fs0[p].ino /\ fs[q].dev = fs0[p].dev
                    /\ p \in DOMAIN fs /\ fs[p] = fs0[p]

\* C15: after a non-dry-run to-absolute, every dispatched link that was
\* attached, relative or absolute, is a symlink storing the canonical
\* absolute path (no link, no "." or "..") of the entry it resolved to.
C15_AbsoluteIsCanonical ==
    (pc = "done" /\ cli.command = "to-absolute" /\ ~cli.dry_run) =>
        \A q \in ActedLinks :
            Attached0(q) =>
                /\ q \in DOMAIN fs
                /\ fs[q].kind = "link"
                /\ fs[q].target = ToStr(FinalOf(fs0, q).p)

\* the length of the longest common prefix of two name sequences
RECURSIVE CommonLen(_, _)
CommonLen(a, b) ==
    IF a = <<>> \/ b = <<>> \/ Head(a) # Head(b) THEN 0
    ELSE 1 + CommonLen(Tail(a), Tail(b))

\* relativize of the claims, on name sequences: one ".." for each name of
\* from beyond the common prefix, then the names of to beyond it
Relativize(from, to) ==
    LET k == CommonLen(from, to)
    IN  [i \in 1..(Len(from) - k) |-> PAR] \o SubSeq(to, k + 1, Len(to))

\* C16: after a non-dry-run to-relative, every dispatched link that was
\* attached, absolute or relative, is a symlink storing relativize(the
\* link's real directory, the entry it resolved to).
C16_RelativeIsMinimal ==
    (pc = "done" /\ cli.command = "to-relative" /\ ~cli.dry_run) =>
        \A q \in ActedLinks :
            Attached0(q) =>
                /\ q \in DOMAIN fs
                /\ fs[q].kind = "link"
                /\ fs[q].target =
                      JoinSegs(Relativize(ParentOf(q), FinalOf(fs0, q).p))

(***************************************************************************)
(* Claims about the relativizer                                            *)
(***************************************************************************)
\* the names of a canonical absolute path string
NamesOf(s) == SelectSeq(s, LAMBDA t : t # SEP)

\* C17: for canonical absolute from_dir and to_target the relativizer
\* gives a path, and that path joined onto from_dir and reduced lexically
\* is to_target again, also when to_target is from_dir, above it or below.
C17_RoundTrip ==
    /\ tpc = "diffed" => tout.some
    /\ tpc = "joined" => tout2 = tin[2]

\* equal paths, an ancestor and a descendant
C17_Witness ==
    /\ tpc = "joined"
    /\ \/ tin = <<A(<<"a", "b">>), A(<<"a", "b">>)>> /\ tout.path = <<>>
       \/ tin = <<A(<<"a", "b">>), A(<<"a">>)>> /\ tout.path = <<PAR>>
       \/ tin = <<A(<<"a">>), A(<<"a", "b">>)>> /\ tout.path = <<"b">>
    /\ tout2 = tin[2]

\* C18: with k the length of the longest common prefix of the two name
\* sequences, the result is exactly len(from_dir) - k components ".."
\* followed by the last len(to_target) - k names of to_target.
C18_ParentsThenRest ==
    tpc \in {"diffed", "joined"} =>
        /\ tout.some
        /\ Components(tout.path) = Relativize(NamesOf(tin[1]), NamesOf(tin[2]))
        /\ tout.path = JoinSegs(Relativize(NamesOf(tin[1]), NamesOf(tin[2])))

\* three levels below the common directory, to a file two levels below it
C18_Witness ==
    /\ tpc = "diffed"
    /\ tin = <<A(<<"a", "a", "a", "a">>), A(<<"a", "b", "a">>)>>
    /\ tout.path = P(<<PAR, PAR, PAR, "b", "a">>)

(***************************************************************************)
(* Claims about the walk                                                   *)
(***************************************************************************)
\* a run of list without filter or depth bound
PlainList == [cli EXCEPT !.path = A(<<"r">>)] = PlainCli("list", FALSE)

\* the symlinks reachable from the root path through real directories: the
\* root itself when it is a symlink, else every symlink below it
ReachableLinks ==
    IF IsSymlink(fs0, cli.path) THEN {cli.path}
    ELSE {OriginOf(q) : q \in LinksUnderRoot(fs0)}

\* C19: a plain walk that has ended visited exactly the symlinks reachable
\* from the root through real directories, so nothing beneath a symlinked
\* directory; and no entry still waiting in a listing was visited before
\* (no second visit).
C19_WalkVisitsReachable ==
    PlainList =>
        /\ pc = "done" => acted = ReachableLinks
        /\ \A i \in 1..Len(stack) : \A e \in stack[i].rest : e.path \notin acted

(***************************************************************************)
(* Claims about edit-target                                                *)
(***************************************************************************)
\* the target edit-target is to store in place of R
Edited(R) ==
    IF cli.replace_all THEN ReplaceAll(cli.pattern, R, cli.replace)
    ELSE ReplaceFirst(cli.pattern, R, cli.replace)

\* C20: after an edit-target run, a visited link (dangling or attached)
\* whose stored target R the pattern does not match is untouched and has
\* raised no error, and one whose target matches is a link storing R with
\* the first match (every match under --replace-all) replaced.
C20_EditReplacesMatch ==
    (pc = "done" /\ cli.command = "edit-target" /\ ~cli.dry_run) =>
        \A q \in ActedLinks :
            LET R == fs0[q].target IN
            /\ q \in DOMAIN fs
            /\ IF IsMatch(cli.pattern, R)
               THEN fs[q].kind = "link" /\ fs[q].target = Edited(R)
               ELSE fs[q] = fs0[q] /\ OriginOf(q) \notin errs

(***************************************************************************)
(* Claims about replace-with-target                                        *)
(***************************************************************************)
\* canonical place of the link just dispatched, and of the entry it resolved
\* to, in the tree f
LinkPlace(f) == Resolve(f, link.path, FALSE).p
TargetPlace(f) == Resolve(f, link.target_resolved, TRUE).p

\* the step is a non-dry-run replace-with-target that changed the tree and
\* logged no error: both the removal and the rename succeeded
ReplaceSucceeds ==
    /\ pc = "walk" /\ cli.command = "replace-with-target" /\ ~cli.dry_run
    /\ fs' # fs /\ errs' = errs

\* C21: a successful replace-with-target puts the entry the link resolved
\* to (same kind, inode and device, not a symlink, with everything below
\* it) at the link's path, leaves nothing at the entry's old path, and
\* changes no other entry.
C21_ReplaceMovesTarget ==
    [][ReplaceSucceeds =>
          LET o == LinkPlace(fs)'
              t == TargetPlace(fs)'
              under == {q \in DOMAIN fs : IsPrefix(t, q)}
              Moved(q) == o \o SubSeq(q, Len(t) + 1, Len(q))
          IN  /\ ~link'.is_dangling
              /\ fs[o].kind = "link"
              /\ fs[t].kind # "link"
              /\ \A q \in under : Moved(q) \in DOMAIN fs' /\ fs'[Moved(q)] = fs[q]
              /\ \A q \in under : q \notin DOMAIN fs'
              /\ \A q \in DOMAIN fs \ (under \cup {o}) :
                    q \in DOMAIN fs' /\ fs'[q] = fs[q]
              /\ DOMAIN fs' =
                    (DOMAIN fs \ (under \cup {o})) \cup {Moved(q) : q \in under}
       ]_vars

\* a run in which the directory d was moved into the place of the link x
C21_Witness ==
    /\ pc = "done" /\ cli.command = "replace-with-target" /\ ~cli.dry_run
    /\ errs = {}
    /\ <<"r", "x">> \in DOMAIN fs /\ fs[<<"r", "x">>].kind = "dir"
    /\ <<"r", "x", "f">> \in DOMAIN fs
    /\ <<"r", "d">> \notin DOMAIN fs

(***************************************************************************)
(* Claims about running a retargeting command twice                        *)
(***************************************************************************)
\* the step dispatches a link to one of the four retargeting commands
RetargetStep ==
    /\ pc = "walk" /\ pc' = "walk"
    /\ cli.command \in Retargeting
    /\ acted' # acted

\* the target the command computes for the link c in the tree f; None where
\* the command computes none (dangling link under to-absolute / to-relative)
None == <<"<none>">>
NewTarget(f, c) ==
    IF cli.command = "tidy" THEN InlineTidy(c.target_path)
    ELSE IF cli.command = "edit-target" THEN Edited(c.target_path)
    ELSE IF c.is_dangling THEN None
    ELSE IF cli.command = "to-absolute"
         THEN Canonicalize(f, c.target_resolved).path
    ELSE LET rel == diff_paths(Canonicalize(f, c.target_resolved).path,
                               Canonicalize(f, c.link_dir).path)
         IN  IF rel.some THEN rel.path ELSE None

\* the guard: a new target equal to the stored one means no step on the tree
GuardSkips ==
    [][(RetargetStep /\ NewTarget(fs, link') = link'.target_path) => fs' = fs]_vars

\* some target left by the first run is still matched by the pattern
StillMatches ==
    /\ cli.command = "edit-target"
    /\ \E q \in DOMAIN fs0 :
        fs0[q].kind = "link" /\ IsMatch(cli.pattern, fs0[q].target)

OriginBefore == Resolve(fs0, morigin, FALSE)

\* C23: when slinky-ln has exited with an error, an entry that was at the
\* origin path before the call is still there and is the same node (kind,
\* identity and stored target), whatever the flags; when it failed before
\* the origin path was determined the tree is as it was.
C23_ErrorKeepsOrigin ==
    (cli.command = "ln" /\ pc = "failed") =>
        IF morigin = <<>> THEN fs = fs0
        ELSE OriginBefore.st = "ok" =>
                /\ OriginBefore.p \in DOMAIN fs
                /\ fs[OriginBefore.p] = fs0[OriginBefore.p]

\* C24: slinky-ln --force without --dry-run, making a symlink to a target
\* that exists, over a regular file, an attached symlink or a dangling
\* symlink at the origin path, ends successfully with a symlink at the
\* origin path; without --absolute, --relative and --dereference that
\* symlink stores the target as it was given.
C24_ForceReplacesEntry ==
    (/\ cli.command = "ln" /\ pc \in {"done", "failed"}
     /\ cli.force /\ ~cli.dry_run /\ ~cli.hard /\ ~cli.tree
     /\ morigin # <<>>
     /\ PathExists(fs0, mtarget)
     /\ OriginBefore.st = "ok"
     /\ fs0[OriginBefore.p].kind \in {"file", "link"})
    => /\ pc = "done"
       /\ OriginBefore.p \in DOMAIN fs
       /\ fs[OriginBefore.p].kind = "link"
       /\ (~cli.absolute /\ ~cli.relative /\ ~cli.dereference) =>
             fs[OriginBefore.p].target = cli.target.path

(***************************************************************************)
(* Claims about remove-then-create                                         *)
(***************************************************************************)
Mutating ==
    {"tidy", "edit-target", "to-absolute", "to-relative", "to-hardlink",
     "to-hardlink-tree", "to-tree", "replace-with-target"}
TreeCommands == {"to-hardlink-tree", "to-tree"}

\* a link is handed to a mutating transform that will write
MutatingDispatch ==
    /\ pc = "walk" /\ acted' # acted
    /\ cli.command \in Mutating /\ ~cli.dry_run

\* the step reports an error for the link after its removal: the create
\* step of a transform, or a step of the mirror, has failed
CreateFails ==
    /\ cli.command \in Mutating /\ ~cli.dry_run
    /\ errs' # errs
    /\ (pc = "walk" /\ fs' # fs) \/ pc = "mirror"

\* the removal comes first: a step that changes the tree has taken the old
\* link away from its path, and tidy and edit-target, whose only fallible
\* steps are the removal and the creation, report no error on a tree they
\* left as it was
RemoveComesFirst ==
    /\ (MutatingDispatch /\ fs' # fs) =>
          LET o == Resolve(fs, link'.path, FALSE).p
          IN  o \notin DOMAIN fs' \/ fs'[o] # fs[o]
    /\ (MutatingDispatch /\ cli.command \in {"tidy", "edit-target"}
        /\ errs' # errs) => fs' # fs

\* the failure is reported for the link and nothing else is touched by a
\* transform that is not a tree conversion
ReportedNoRollback ==
    CreateFails =>
        /\ link'.path \in errs'
        /\ (cli.command \notin TreeCommands) =>
              LET o == Resolve(fs, link'.path, FALSE).p
              IN  /\ DOMAIN fs' = DOMAIN fs \ {o}
                  /\ \A q \in DOMAIN fs' : fs'[q] = fs[q]

\* C25 as stated: every mutating transform removes the old link and then
\* creates the new entry; when the creation fails after the removal the
\* link's path is left empty, the failure is reported for the entry and
\* the link is not recreated.
C25_FailedCreateLeavesNothing ==
    [][/\ RemoveComesFirst
       /\ ReportedNoRollback
       /\ CreateFails => Resolve(fs', link'.path, FALSE).st = "missing"
      ]_vars

\* C25, amended: as above, except that a tree conversion whose mirror
\* fails leaves at the link's path the directory with the part of the
\* mirror made so far.
C25_FailedCreateLeavesNoLink ==
    [][/\ RemoveComesFirst
       /\ ReportedNoRollback
       /\ CreateFails =>
            LET r == Resolve(fs', link'.path, FALSE)
            IN  IF cli.command \in TreeCommands
                THEN r.st = "missing" \/ (r.st = "ok" /\ fs'[r.p].kind = "dir")
                ELSE r.st = "missing"
      ]_vars

\* to-hardlink has removed the link /r/x to a file of another device, the
\* hard link was refused, and the path is empty
C25_Witness ==
    /\ cli.command = "to-hardlink" /\ ~cli.dry_run
    /\ <<"r", "d", "h">> \in DOMAIN fs
    /\ A(<<"r", "x">>) \in errs
    /\ <<"r", "x">> \notin DOMAIN fs

(***************************************************************************)
(* Claims about the order of the walk                                      *)
(***************************************************************************)
\* what the command of the run does to the link c when the tree is f
Alone(f, c) ==
    IF cli.command = "tidy" THEN DoTidy(f, c)
    ELSE IF cli.command = "edit-target" THEN DoEditTarget(f, c)
    ELSE IF cli.command = "to-absolute" THEN DoToAbsolute(f, c)
    ELSE IF cli.command = "to-relative" THEN DoToRelative(f, c)
    ELSE IF cli.command = "to-hardlink" THEN DoToHardlink(f, c)
    ELSE IF cli.command = "replace-with-target" THEN DoReplaceWithTarget(f, c)
    ELSE IF cli.command = "delete" THEN DoDelete(f, c)
    ELSE Unchanged(f)

Missing == [kind |-> "missing"]
NodeAt(f, s) ==
    LET r == Resolve(f, s, FALSE) IN IF r.st = "ok" THEN f[r.p] ELSE Missing

\* C26: the outcome of a link does not depend on the links processed
\* before it: when its turn comes, the entry its transform leaves at its
\* path and the error it reports are those the transform produces on the
\* tree the program started with (for the tree conversions: the link is
\* refused or mirrored as it would have been on that tree).
C26_OrderIndependent ==
    [][(pc = "walk" /\ acted' # acted /\ pc' # "failed") =>
          LET p == link'.path
              first == Classify(fs0, p)
          IN  /\ IsSymlink(fs0, p)
              /\ IF cli.command \in TreeCommands
                 THEN /\ link'.is_dangling = first.is_dangling
                      /\ IsDir(fs, link'.target_resolved)
                            = IsDir(fs0, first.target_resolved)
                 ELSE /\ NodeAt(fs', p) = NodeAt(Alone(fs0, first).fs, p)
                      /\ (p \in errs') = ~Alone(fs0, first).ok
      ]_vars

(***************************************************************************)
(* Claims about retargeting                                                *)
(***************************************************************************)
\* C27: a non-dry-run to-absolute or to-relative step on an attached link
\* leaves a symlink at the link's path, and the link resolves to the same
\* entry after the step as before it.
C27_RetargetKeepsMeaning ==
    [][(/\ pc = "walk" /\ acted' # acted
        /\ cli.command \in {"to-absolute", "to-relative"} /\ ~cli.dry_run
        /\ ~link'.is_dangling) =>
          /\ IsSymlink(fs', link'.path)
          /\ Resolve(fs', link'.path, TRUE) = Resolve(fs, link'.path, TRUE)
      ]_vars

(***************************************************************************)
(* Claims about the termination of the tree mirror                         *)
(***************************************************************************)
\* C28: a tree mirror that was started returns to its caller, also when the
\* link it replaces lies inside the directory it points to, and the run of
\* to-tree or to-hardlink-tree then comes to its end.
C28_MirrorTerminates ==
    /\ (pc = "mirror") ~> (pc = "walk")
    /\ <>Returned

\* to-tree has mirrored /r into /r/x, which lies inside /r, and has returned
C28_Witness ==
    /\ pc = "done" /\ cli.command \in TreeCommands
    /\ <<"r", "x">> \in DOMAIN fs0
    /\ fs0[<<"r", "x">>].kind = "link" /\ fs0[<<"r", "x">>].target = P(<<CUR>>)
    /\ mres # ""
    /\ <<"r", "x", "x">> \in DOMAIN fs

(***************************************************************************)
(* Claims about the frame of the transforms                                *)
(***************************************************************************)
Framed ==
    {"tidy", "edit-target", "to-absolute", "to-relative", "to-hardlink",
     "to-hardlink-tree", "to-tree", "delete"}

\* a step of a framed command on the link `link'`: its dispatch, or a step
\* of the mirror made in its place
FramedStep ==
    /\ cli.command \in Framed
    /\ (pc = "walk" /\ acted' # acted) \/ pc = "mirror"

\* C29: a step of tidy, edit-target, to-absolute, to-relative, to-hardlink,
\* to-hardlink-tree, to-tree or delete leaves every entry that is not at
\* the processed link's path as it was (the target, the entries under it
\* and the other links included); it adds nothing outside that path, and
\* only the tree conversions add entries below it.
C29_OnlyTheLinkChanges ==
    [][FramedStep =>
          LET o == Resolve(fs, link'.path, FALSE).p
          IN  /\ \A q \in DOMAIN fs \ {o} :
                    IsPrefix(o, q) \/ (q \in DOMAIN fs' /\ fs'[q] = fs[q])
              /\ \A q \in DOMAIN fs' \ DOMAIN fs : IsPrefix(o, q)
              /\ cli.command \notin TreeCommands =>
                    DOMAIN fs' \subseteq DOMAIN fs \cup {o}
      ]_vars

\* to-tree has replaced /r/x by a mirror of d, and d, its file and the other
\* link are as they were
C29_Witness ==
    /\ pc = "done" /\ cli.command = "to-tree"
    /\ <<"r", "x", "f">> \in DOMAIN fs
    /\ <<"r", "d", "y">> \in DOMAIN fs
    /\ \A q \in DOMAIN fs0 \ {<<"r", "x">>} : q \in DOMAIN fs /\ fs[q] = fs0[q]

(***************************************************************************)
(* Claims about the normalisation the tidy command runs                    *)
(***************************************************************************)
\* C30: the inline loop of the tidy command computes what tidy_path
\* computes: on every input path, and on every result of tidy_path, the
\* two give the same string.
C30_InlineIsTidyPath ==
    /\ tpc # "input" => InlineTidy(tin) = tout
    /\ tpc = "twice" => InlineTidy(tout) = tout2

\* an input with ".", a cancelled name and a leading ".." has been tidied
C30_Witness ==
    /\ tpc = "twice"
    /\ tin = <<CUR, SEP, "a", SEP, PAR, SEP, PAR>>
    /\ tout = <<PAR>>
    /\ InlineTidy(tin) = <<PAR>>

=============================================================================
